---- MODULE Spec2Model ----
(***************************************************************************)
(* fstree: the hierarchical tree state of the interactive explorer         *)
(* (src/src/tui.rs), the ordering applied to a directory walk              *)
(* (src/src/sort.rs) and the static view (src/src/view.rs).                *)
(*                                                                         *)
(* A file name is a sequence of code points (ASCII), a path is the         *)
(* sequence of file names below the root, an Option is a sequence of       *)
(* length 0 (None) or 1 (Some).  Indices held by the program (the          *)
(* selection) are 0-based as in the source; TLA+ sequences are 1-based.    *)
(***************************************************************************)
EXTENDS Integers, Sequences, FiniteSets, TLC

VARIABLES
    pc,               \* position in main: "view" (view::run entered), "new"
                      \* (tui::run entered), "setup_terminal", "run_app",
                      \* "exit" (Ok returned), "error" (Err returned), "panic"
    args,             \* the parsed arguments: path, expand_level, sort options
    walk,             \* the stream WalkBuilder yields for args.path (root included)
    master_entries,   \* AppState.master_entries
    visible_entries,  \* AppState.visible_entries
    selected,         \* AppState.list_state.selected()
    outcome,          \* the PostExitAction run_app breaks with
    terminal,         \* the terminal's mode: raw_mode, alternate_screen
    stdout,           \* the lines written to standard output
    error,            \* the anyhow::Error main returns, if any
    siblings,         \* the slice sort_entries is called on directly
    ordering,         \* the Ordering compare_entries returned for its first two
    op,               \* history: the operation that produced this state
    prev              \* history: the AppState fields before that operation

vars == <<pc, args, walk, master_entries, visible_entries, selected, outcome,
          terminal, stdout, error, siblings, ordering, op, prev>>

----------------------------------------------------------------------------
(* Bounds of the model *)

\* usize is modelled UsizeBits wide (TLC integers are 32-bit).
UsizeBits == 16
\* On an empty list the selection index is followed at most this far from
\* either end of the usize range.
IndexCap == 2
\* --expand-level values tried: 0..MaxExpandLevel, and none.
MaxExpandLevel == 3

UsizeMax == 2^UsizeBits - 1

----------------------------------------------------------------------------
(* Option *)

None == <<>>
Some(x) == <<x>>
IsSome(o) == Len(o) = 1
Unwrap(o) == o[1]

Min(a, b) == IF a <= b THEN a ELSE b

\* all indices (1-based) of a sequence
Idx(s) == 1..Len(s)

\* Iterator::position(|e| e.path == path): the 0-based index of the first
\* entry with the path, or None
PositionOfPath(s, path) ==
    IF \E k \in Idx(s) : s[k].path = path
    THEN Some((CHOOSE k \in Idx(s) :
                 s[k].path = path /\ \A j \in 1..(k-1) : s[j].path # path) - 1)
    ELSE None

IsPrefix(p, q) == Len(p) <= Len(q) /\ SubSeq(q, 1, Len(p)) = p
IsStrictPrefix(p, q) == Len(p) < Len(q) /\ SubSeq(q, 1, Len(p)) = p
Front(p) == SubSeq(p, 1, Len(p) - 1)
Last(p) == p[Len(p)]

----------------------------------------------------------------------------
(* Ordering Engine: src/src/sort.rs *)

\* std::cmp::Ordering
Less == "Less"
Equal == "Equal"
Greater == "Greater"

Reverse(o) == IF o = Less THEN Greater ELSE IF o = Greater THEN Less ELSE Equal

\* Ord::cmp on integers (u64, char, usize, SystemTime)
CmpInt(a, b) == IF a < b THEN Less ELSE IF a > b THEN Greater ELSE Equal

SortTypes == {"Name", "Size", "Modified", "Extension"}

\* sort::SortOptions
SortOptions == [sort_type : SortTypes, directories_first : BOOLEAN,
                case_sensitive : BOOLEAN, natural_sort : BOOLEAN,
                reverse : BOOLEAN, dotfiles_first : BOOLEAN]

IsAsciiDigit(c) == c >= 48 /\ c <= 57
IsAsciiUppercase(c) == c >= 65 /\ c <= 90
IsAsciiLowercase(c) == c >= 97 /\ c <= 122
IsWhitespace(c) == c \in {9, 10, 11, 12, 13, 32}

\* char::to_lowercase, on ASCII
ToLowerChar(c) == IF IsAsciiUppercase(c) THEN c + 32 ELSE c
ToLowercase(s) == [k \in Idx(s) |-> ToLowerChar(s[k])]

\* str::cmp: lexicographic by code point, a strict prefix sorts first
RECURSIVE StrCmpFrom(_, _, _)
StrCmpFrom(s, t, k) ==
    IF k > Len(s) \/ k > Len(t) THEN CmpInt(Len(s), Len(t))
    ELSE IF s[k] # t[k] THEN CmpInt(s[k], t[k])
    ELSE StrCmpFrom(s, t, k + 1)

StrCmp(s, t) == StrCmpFrom(s, t, 1)

\* char_sort_priority with one class for every character: plain code point
\* order
char_sort_priority_OneClass(c) == 0

\* char_sort_priority: digits 0, uppercase 1, lowercase 2, others 3
char_sort_priority(c) ==
    IF IsAsciiDigit(c) THEN 0
    ELSE IF IsAsciiUppercase(c) THEN 1
    ELSE IF IsAsciiLowercase(c) THEN 2
    ELSE 3

\* compare_default_order: position by position on (priority, char), then length
RECURSIVE DefaultOrderFrom(_, _, _)
DefaultOrderFrom(s, t, k) ==
    IF k > Len(s) \/ k > Len(t) THEN CmpInt(Len(s), Len(t))
    ELSE LET pa == char_sort_priority(s[k])
             pb == char_sort_priority(t[k])
         IN IF pa # pb THEN CmpInt(pa, pb)
            ELSE IF s[k] # t[k] THEN CmpInt(s[k], t[k])
            ELSE DefaultOrderFrom(s, t, k + 1)

compare_default_order(s, t) == DefaultOrderFrom(s, t, 1)

\* compare_case_insensitive / compare_case_insensitive_str
compare_case_insensitive(s, t) == StrCmp(ToLowercase(s), ToLowercase(t))

\* natord::compare, as compare_natural calls it: whitespace is skipped, digit
\* runs compare as numbers (left-aligned when one starts with 0), other
\* characters by code point, case-sensitively.
NatDigit(s, k) == IF k <= Len(s) /\ IsAsciiDigit(s[k]) THEN Some(s[k] - 48) ELSE None

RECURSIVE NatSkip(_, _)
NatSkip(s, k) == IF k <= Len(s) /\ IsWhitespace(s[k]) THEN NatSkip(s, k + 1) ELSE k

RECURSIVE NatNonDigits(_, _, _, _)
RECURSIVE NatDigitsLeft(_, _, _, _)
RECURSIVE NatDigitsRight(_, _, _, _, _)

\* 'digits_left: the runs are compared digit by digit
NatDigitsLeft(s, t, i, j) ==
    LET ll == NatDigit(s, i)
        rr == NatDigit(t, j)
    IN IF IsSome(ll) /\ IsSome(rr)
       THEN IF Unwrap(ll) # Unwrap(rr) THEN CmpInt(Unwrap(ll), Unwrap(rr))
            ELSE NatDigitsLeft(s, t, i + 1, j + 1)
       ELSE IF IsSome(ll) THEN Greater
       ELSE IF IsSome(rr) THEN Less
       ELSE NatNonDigits(s, t, i, j)

\* 'digits_right: the longer run wins, equal lengths by the first difference
NatDigitsRight(s, t, i, j, lastcmp) ==
    LET ll == NatDigit(s, i)
        rr == NatDigit(t, j)
    IN IF IsSome(ll) /\ IsSome(rr)
       THEN NatDigitsRight(s, t, i + 1, j + 1,
                IF lastcmp = Equal THEN CmpInt(Unwrap(ll), Unwrap(rr)) ELSE lastcmp)
       ELSE IF IsSome(ll) THEN Greater
       ELSE IF IsSome(rr) THEN Less
       ELSE IF lastcmp # Equal THEN lastcmp
       ELSE NatNonDigits(s, t, i, j)

NatNonDigits(s, t, i0, j0) ==
    LET i == NatSkip(s, i0)
        j == NatSkip(t, j0)
        ll == NatDigit(s, i)
        rr == NatDigit(t, j)
    IN IF i <= Len(s) /\ j <= Len(t)
       THEN IF IsSome(ll) /\ IsSome(rr)
            THEN IF Unwrap(ll) = 0 \/ Unwrap(rr) = 0
                 THEN IF Unwrap(ll) # Unwrap(rr) THEN CmpInt(Unwrap(ll), Unwrap(rr))
                      ELSE NatDigitsLeft(s, t, i + 1, j + 1)
                 ELSE NatDigitsRight(s, t, i + 1, j + 1, CmpInt(Unwrap(ll), Unwrap(rr)))
            ELSE IF s[i] # t[j] THEN CmpInt(s[i], t[j])
            ELSE NatNonDigits(s, t, i + 1, j + 1)
       ELSE IF i <= Len(s) THEN Greater
       ELSE IF j <= Len(t) THEN Less
       ELSE Equal

compare_natural(s, t) == NatNonDigits(s, t, 1, 1)

----------------------------------------------------------------------------
(* Directory entries and the comparator *)

\* ignore::DirEntry as the program reads it: path() below the root,
\* file_type().is_dir(), metadata().len(), metadata().modified() (None when
\* it cannot be read).  depth() is the number of path components below the
\* root and file_name() the last one.
DirEntry(p, d, sz, mt) == [path |-> p, is_dir |-> d, size |-> sz, modified |-> mt]

file_name(e) == Last(e.path)
depth(e) == Len(e.path)

\* is_dotfile: the file name starts with '.'
is_dotfile(e) == Len(file_name(e)) > 0 /\ file_name(e)[1] = 46

\* get_extension: Path::extension, "" if none.  The portion after the final
\* '.', none when there is no '.' or the only '.' starts the name.
LastDot(name) ==
    IF \E k \in Idx(name) : name[k] = 46
    THEN CHOOSE k \in Idx(name) : name[k] = 46 /\ \A j \in (k+1)..Len(name) : name[j] # 46
    ELSE 0

get_extension(name) ==
    IF LastDot(name) <= 1 THEN <<>> ELSE SubSeq(name, LastDot(name) + 1, Len(name))

\* get_entry_size: 0 for directories
get_entry_size(e) == IF e.is_dir THEN 0 ELSE e.size

\* compare_by_name without the natural_sort arm
compare_by_name_NeverNatural(a, b, options) ==
    IF options.case_sensitive THEN compare_default_order(file_name(a), file_name(b))
    ELSE compare_case_insensitive(file_name(a), file_name(b))

\* compare_by_name: natural_sort first, then case_sensitive
compare_by_name(a, b, options) ==
    IF options.natural_sort THEN compare_natural(file_name(a), file_name(b))
    ELSE IF options.case_sensitive THEN compare_default_order(file_name(a), file_name(b))
    ELSE compare_case_insensitive(file_name(a), file_name(b))

compare_by_size(a, b) == CmpInt(get_entry_size(a), get_entry_size(b))

\* compare_by_modified with two unknown times comparing Less
compare_by_modified_UnknownLess(a, b) ==
    IF IsSome(a.modified) /\ IsSome(b.modified)
    THEN CmpInt(Unwrap(a.modified), Unwrap(b.modified))
    ELSE IF IsSome(a.modified) THEN Less
    ELSE IF IsSome(b.modified) THEN Greater
    ELSE Less

\* compare_by_modified: known times before unknown ones
compare_by_modified(a, b) ==
    IF IsSome(a.modified) /\ IsSome(b.modified)
    THEN CmpInt(Unwrap(a.modified), Unwrap(b.modified))
    ELSE IF IsSome(a.modified) THEN Less
    ELSE IF IsSome(b.modified) THEN Greater
    ELSE Equal

\* compare_by_extension without the fall-back to the name comparison
compare_by_extension_NoFallback(a, b, options) ==
    IF options.case_sensitive
    THEN StrCmp(get_extension(file_name(a)), get_extension(file_name(b)))
    ELSE compare_case_insensitive(get_extension(file_name(a)), get_extension(file_name(b)))

\* compare_by_extension: the extensions, then compare_by_name
compare_by_extension(a, b, options) ==
    LET ext_a == get_extension(file_name(a))
        ext_b == get_extension(file_name(b))
        ext_cmp == IF options.case_sensitive THEN StrCmp(ext_a, ext_b)
                   ELSE compare_case_insensitive(ext_a, ext_b)
    IN IF ext_cmp = Equal THEN compare_by_name(a, b, options) ELSE ext_cmp

\* the primary sorting strategy of compare_entries
ComparePrimary(a, b, options) ==
    CASE options.sort_type = "Name" -> compare_by_name(a, b, options)
      [] options.sort_type = "Size" -> compare_by_size(a, b)
      [] options.sort_type = "Modified" -> compare_by_modified(a, b)
      [] options.sort_type = "Extension" -> compare_by_extension(a, b, options)

\* compare_entries with the dotfiles-first buckets taken dot entries first:
\* dot-directories, dot-files, regular directories, regular files
compare_entries_DotsBeforeDirectories(a, b, options) ==
    LET ra == (IF is_dotfile(a) THEN 0 ELSE 2) + (IF a.is_dir THEN 0 ELSE 1)
        rb == (IF is_dotfile(b) THEN 0 ELSE 2) + (IF b.is_dir THEN 0 ELSE 1)
    IN IF options.dotfiles_first
       THEN IF ra = rb THEN ComparePrimary(a, b, options) ELSE CmpInt(ra, rb)
       ELSE IF options.directories_first /\ a.is_dir /\ ~b.is_dir THEN Less
       ELSE IF options.directories_first /\ ~a.is_dir /\ b.is_dir THEN Greater
       ELSE ComparePrimary(a, b, options)

\* compare_entries without the directories-first match
compare_entries_NoDirectoriesFirst(a, b, options) ==
    IF options.dotfiles_first
    THEN IF is_dotfile(a) = is_dotfile(b) /\ a.is_dir = b.is_dir
         THEN ComparePrimary(a, b, options)
         ELSE IF is_dotfile(a) /\ a.is_dir THEN Less
         ELSE IF is_dotfile(b) /\ b.is_dir THEN Greater
         ELSE IF ~is_dotfile(a) /\ a.is_dir THEN Less
         ELSE IF ~is_dotfile(b) /\ b.is_dir THEN Greater
         ELSE IF is_dotfile(a) /\ ~a.is_dir THEN Less
         ELSE Greater
    ELSE ComparePrimary(a, b, options)

\* compare_entries: the dotfiles-first match, else directories-first, else
\* the primary key.  The match arms are taken in the source's order.
compare_entries(a, b, options) ==
    LET ad == a.is_dir
        bd == b.is_dir
        af == is_dotfile(a)
        bf == is_dotfile(b)
    IN IF options.dotfiles_first
       THEN IF af = bf /\ ad = bd THEN ComparePrimary(a, b, options)
            ELSE IF af /\ ad THEN Less
            ELSE IF bf /\ bd THEN Greater
            ELSE IF ~af /\ ad THEN Less
            ELSE IF ~bf /\ bd THEN Greater
            ELSE IF af /\ ~ad THEN Less
            ELSE Greater
       ELSE IF options.directories_first /\ ad /\ ~bd THEN Less
       ELSE IF options.directories_first /\ ~ad /\ bd THEN Greater
       ELSE ComparePrimary(a, b, options)

\* SortCmp reversing the primary key only: the directories-first /
\* dotfiles-first precedence stays as it is
SortCmp_ReversePrimaryOnly(a, b, options) ==
    IF options.reverse
         /\ ~(IF options.dotfiles_first
              THEN a.is_dir # b.is_dir \/ is_dotfile(a) # is_dotfile(b)
              ELSE options.directories_first /\ a.is_dir # b.is_dir)
    THEN Reverse(compare_entries(a, b, options))
    ELSE compare_entries(a, b, options)

\* the closure sort_entries hands to sort_by
SortCmp(a, b, options) ==
    IF options.reverse THEN Reverse(compare_entries(a, b, options))
    ELSE compare_entries(a, b, options)

\* InsertPos putting an element in front of the elements it compares Equal to
InsertPos_BeforeEquals(sorted, x, options) ==
    IF \E k \in Idx(sorted) : SortCmp(sorted[k], x, options) = Less
    THEN CHOOSE k \in Idx(sorted) :
            /\ SortCmp(sorted[k], x, options) = Less
            /\ \A j \in (k+1)..Len(sorted) : SortCmp(sorted[j], x, options) # Less
    ELSE 0

\* slice::sort_by is a stable sort: each element, in input order, goes
\* behind the last element that does not compare Greater than it.
InsertPos(sorted, x, options) ==
    IF \E k \in Idx(sorted) : SortCmp(sorted[k], x, options) # Greater
    THEN CHOOSE k \in Idx(sorted) :
            /\ SortCmp(sorted[k], x, options) # Greater
            /\ \A j \in (k+1)..Len(sorted) : SortCmp(sorted[j], x, options) = Greater
    ELSE 0

InsertSorted(sorted, x, options) ==
    LET k == InsertPos(sorted, x, options)
    IN SubSeq(sorted, 1, k) \o <<x>> \o SubSeq(sorted, k + 1, Len(sorted))

RECURSIVE SortFrom(_, _, _, _)
SortFrom(entries, k, acc, options) ==
    IF k > Len(entries) THEN acc
    ELSE SortFrom(entries, k + 1, InsertSorted(acc, entries[k], options), options)

\* sort_entries sorting without the reverse flag and turning the result
\* round afterwards
sort_entries_ReverseAfter(entries, options) ==
    IF options.reverse
    THEN [k \in Idx(entries) |->
             SortFrom(entries, 1, <<>>, [options EXCEPT !.reverse = FALSE])[Len(entries) + 1 - k]]
    ELSE SortFrom(entries, 1, <<>>, options)

\* sort_entries: one sort_by over the whole slice
sort_entries(entries, options) == SortFrom(entries, 1, <<>>, options)

----------------------------------------------------------------------------
(* The directory trees walked *)

\* file names, as code points
n_a == <<97>>
n_b == <<98>>
n_c == <<99>>
n_p == <<112>>
n_q == <<113>>
n_r == <<114>>
n_x == <<120>>
n_B == <<66>>
n_src == <<115, 114, 99>>
n_main_rs == <<109, 97, 105, 110, 46, 114, 115>>
n_README_md == <<82, 69, 65, 68, 77, 69, 46, 109, 100>>

\* the root entry every walk starts with (depth 0)
RootEntry == [path |-> <<>>, is_dir |-> TRUE, size |-> 0, modified |-> None]

\* an empty directory
TreeEmpty == <<>>

\* a/, a/b, c/
TreeScenario ==
    << DirEntry(<<n_a>>, TRUE, 0, Some(5)),
       DirEntry(<<n_a, n_b>>, FALSE, 7, Some(3)),
       DirEntry(<<n_c>>, TRUE, 0, Some(1)) >>

\* src/, src/main.rs, README.md (the tree of tui.rs's unit tests)
TreeTest ==
    << DirEntry(<<n_src>>, TRUE, 0, Some(2)),
       DirEntry(<<n_src, n_main_rs>>, FALSE, 1024, Some(4)),
       DirEntry(<<n_README_md>>, FALSE, 512, None) >>

\* p/, p/q/, p/q/x, p/r, B
TreeNested ==
    << DirEntry(<<n_p>>, TRUE, 0, Some(1)),
       DirEntry(<<n_p, n_q>>, TRUE, 0, Some(2)),
       DirEntry(<<n_p, n_q, n_x>>, FALSE, 3, Some(6)),
       DirEntry(<<n_p, n_r>>, FALSE, 4, None),
       DirEntry(<<n_B>>, FALSE, 5, Some(4)) >>

Trees == {TreeEmpty, TreeScenario, TreeTest, TreeNested}

\* Pre-order: every entry below depth 1 has its parent directory before it,
\* with only descendants of that parent in between.
IsPreOrderPaths(seq) ==
    \A k \in Idx(seq) :
        Len(seq[k].path) > 1 =>
            \E j \in 1..(k-1) :
                /\ seq[j].path = Front(seq[k].path)
                /\ seq[j].is_dir
                /\ \A m \in j..k : IsPrefix(seq[j].path, seq[m].path)

IndexPermutations(n) == {f \in [1..n -> 1..n] : \A i, j \in 1..n : f[i] = f[j] => i = j}

\* The streams WalkBuilder can yield for a tree: the root, then the entries
\* depth-first, parents before children, siblings in any order.
WalkStreamsOf(tree) ==
    { <<RootEntry>> \o [k \in Idx(tree) |-> tree[f[k]]] :
        f \in {g \in IndexPermutations(Len(tree)) :
                 IsPreOrderPaths([k \in Idx(tree) |-> tree[g[k]]])} }

WalkStreams == UNION {WalkStreamsOf(t) : t \in Trees}

----------------------------------------------------------------------------
(* Tree Builder and Visibility Projector: src/src/tui.rs *)

\* tui::FileEntry (the display-only fields size, permissions and git_status
\* are left out)
FileEntry(e) == [path |-> e.path, depth |-> depth(e), is_dir |-> e.is_dir,
                 is_expanded |-> FALSE]

\* Iterator::filter
RECURSIVE FilterNotRoot(_, _)
FilterNotRoot(stream, k) ==
    IF k > Len(stream) THEN <<>>
    ELSE IF stream[k].path # <<>> THEN <<stream[k]>> \o FilterNotRoot(stream, k + 1)
    ELSE FilterNotRoot(stream, k + 1)

\* scan_directory: collect the walk without the root, sort_entries, convert
scan_directory(stream, options) ==
    LET dir_entries == sort_entries(FilterNotRoot(stream, 1), options)
    IN [k \in Idx(dir_entries) |-> FileEntry(dir_entries[k])]

\* PopTo with `>` for `>=`: one flag too many stays on the stack
PopTo_OffByOne(stack, entry_depth) == SubSeq(stack, 1, Min(Len(stack), entry_depth))

\* regenerate_visible_entries: while parent_expanded_stack.len() >= entry.depth
\* { pop }
PopTo(stack, entry_depth) == SubSeq(stack, 1, Min(Len(stack), entry_depth - 1))

\* Shown consulting the parent alone instead of the whole stack
Shown_ParentOnly(stack) == stack = <<>> \/ stack[Len(stack)]

\* regenerate_visible_entries: parent_expanded_stack.iter().all(|&x| x)
Shown(stack) == \A i \in Idx(stack) : stack[i]

\* the loop of regenerate_visible_entries: pop, test, push
RECURSIVE RegenerateFrom(_, _, _, _)
RegenerateFrom(master, k, stack, acc) ==
    IF k > Len(master) THEN acc
    ELSE RegenerateFrom(master, k + 1,
            IF master[k].is_dir
            THEN Append(PopTo(stack, master[k].depth), master[k].is_expanded)
            ELSE PopTo(stack, master[k].depth),
            IF Shown(PopTo(stack, master[k].depth)) THEN Append(acc, master[k]) ELSE acc)

regenerate_visible_entries(master) == RegenerateFrom(master, 1, <<>>, <<>>)

\* ExpandAtStart with `<=` for `<`
ExpandAtStart_Inclusive(entry, expand_level) == entry.is_dir /\ entry.depth <= expand_level

\* AppState::new, the --expand-level test
ExpandAtStart(entry, expand_level) == entry.is_dir /\ entry.depth < expand_level

\* AppState::new, the loop that sets is_expanded
InitialExpand(master, expand_level) ==
    IF IsSome(expand_level)
    THEN [k \in Idx(master) |->
            IF ExpandAtStart(master[k], Unwrap(expand_level))
            THEN [master[k] EXCEPT !.is_expanded = TRUE]
            ELSE master[k]]
    ELSE master

\* AppState::new: the selection after the first projection
InitialSelection(visible) == IF visible # <<>> THEN Some(0) ELSE None

----------------------------------------------------------------------------
(* Navigation Controller: the AppState methods *)

\* the AppState fields, as history keeps them
Snapshot == [master_entries |-> master_entries, visible_entries |-> visible_entries,
             selected |-> selected]

\* what a method leaves behind: the selection, or a panic
Ok(sel) == [panic |-> FALSE, selected |-> sel]
Panicked(sel) == [panic |-> TRUE, selected |-> sel]

\* an index TLC follows on an empty list (see IndexCap)
WithinCap(i) == i <= IndexCap \/ i >= UsizeMax - IndexCap

\* NextIndex without the wrap to 0
NextIndex_NoWrap(i, last) == i + 1

\* AppState::next, the Some(i) arm; last is visible_entries.len() - 1
NextIndex(i, last) == IF i >= last THEN 0 ELSE i + 1

\* PreviousIndex stopping at 0 instead of wrapping to the last index
PreviousIndex_Saturating(i, last) == IF i = 0 THEN 0 ELSE i - 1

\* AppState::previous, the Some(i) arm
PreviousIndex(i, last) == IF i = 0 THEN last ELSE i - 1

\* visible_entries.len() - 1 in usize, None standing for a panic: with an
\* empty list the subtraction overflows, which panics where overflow checks
\* are on (debug builds) and wraps to usize::MAX where they are off (release
\* builds)
LenMinusOne(visible) ==
    IF Len(visible) = 0 THEN {None, Some(UsizeMax)}
    ELSE {Some(Len(visible) - 1)}

\* AppState::next
next(visible, sel) ==
    IF IsSome(sel)
    THEN { IF IsSome(last) THEN Ok(Some(NextIndex(Unwrap(sel), Unwrap(last))))
           ELSE Panicked(sel) :
           last \in LenMinusOne(visible) }
    ELSE {Ok(Some(0))}

\* AppState::previous (len() - 1 is evaluated only when i == 0)
previous(visible, sel) ==
    IF IsSome(sel)
    THEN IF Unwrap(sel) = 0
         THEN { IF IsSome(last) THEN Ok(Some(PreviousIndex(0, Unwrap(last))))
                ELSE Panicked(sel) :
                last \in LenMinusOne(visible) }
         ELSE {Ok(Some(PreviousIndex(Unwrap(sel), 0)))}
    ELSE {Ok(Some(0))}

\* AppState::get_selected_entry: selected().and_then(|i| visible_entries.get(i))
get_selected_entry(visible, sel) ==
    IF IsSome(sel) /\ Unwrap(sel) < Len(visible)
    THEN Some(visible[Unwrap(sel) + 1])
    ELSE None

\* FlipExpanded flipping the flag of a selected file as well
FlipExpanded_FilesToo(master, path) ==
    [k \in Idx(master) |->
        IF master[k].path = path
        THEN [master[k] EXCEPT !.is_expanded = ~master[k].is_expanded]
        ELSE master[k]]

\* FlipExpanded collapsing the directory's descendants with it
FlipExpanded_CollapseDescendants(master, path) ==
    [k \in Idx(master) |->
        IF master[k].path = path /\ master[k].is_dir
        THEN [master[k] EXCEPT !.is_expanded = ~master[k].is_expanded]
        ELSE IF /\ IsStrictPrefix(path, master[k].path)
                /\ \E j \in Idx(master) : master[j].path = path /\ master[j].is_expanded
        THEN [master[k] EXCEPT !.is_expanded = FALSE]
        ELSE master[k]]

\* toggle_selected_directory: find the first master entry with the path and
\* flip is_expanded when it is a directory
FlipExpanded(master, path) ==
    LET at == PositionOfPath(master, path)
    IN IF IsSome(at) /\ master[Unwrap(at) + 1].is_dir
       THEN [master EXCEPT ![Unwrap(at) + 1].is_expanded = ~master[Unwrap(at) + 1].is_expanded]
       ELSE master

\* Reselect putting the selection on the first line
Reselect_First(new_visible, selected_path, selected_index) == {Ok(Some(0))}

\* toggle_selected_directory: the selection after the projection was redone
Reselect(new_visible, selected_path, selected_index) ==
    LET new_index == PositionOfPath(new_visible, selected_path)
    IN IF IsSome(new_index) THEN {Ok(new_index)}
       ELSE { IF IsSome(last) THEN Ok(Some(Min(selected_index, Unwrap(last))))
              ELSE Panicked(Some(selected_index)) :
              last \in LenMinusOne(new_visible) }

\* toggle_selected_directory looking the path up in master_entries instead of
\* the new visible_entries
toggle_selected_directory_PositionInMaster(master, visible, sel) ==
    IF ~IsSome(sel)
    THEN {[panic |-> FALSE, master_entries |-> master, visible_entries |-> visible,
           selected |-> sel]}
    ELSE IF Unwrap(sel) >= Len(visible)
    THEN {[panic |-> TRUE, master_entries |-> master, visible_entries |-> visible,
           selected |-> sel]}
    ELSE LET selected_path == visible[Unwrap(sel) + 1].path
             new_master == FlipExpanded(master, selected_path)
             new_visible == regenerate_visible_entries(new_master)
         IN { [panic |-> r.panic, master_entries |-> new_master,
               visible_entries |-> new_visible, selected |-> r.selected] :
              r \in Reselect(new_master, selected_path, Unwrap(sel)) }

\* toggle_selected_directory without the call of regenerate_visible_entries
toggle_selected_directory_StaleVisible(master, visible, sel) ==
    IF ~IsSome(sel)
    THEN {[panic |-> FALSE, master_entries |-> master, visible_entries |-> visible,
           selected |-> sel]}
    ELSE IF Unwrap(sel) >= Len(visible)
    THEN {[panic |-> TRUE, master_entries |-> master, visible_entries |-> visible,
           selected |-> sel]}
    ELSE { [panic |-> r.panic,
            master_entries |-> FlipExpanded(master, visible[Unwrap(sel) + 1].path),
            visible_entries |-> visible, selected |-> r.selected] :
           r \in Reselect(visible, visible[Unwrap(sel) + 1].path, Unwrap(sel)) }

\* AppState::toggle_selected_directory: the set of states it can leave
toggle_selected_directory(master, visible, sel) ==
    IF ~IsSome(sel)
    THEN {[panic |-> FALSE, master_entries |-> master, visible_entries |-> visible,
           selected |-> sel]}
    ELSE IF Unwrap(sel) >= Len(visible)
    THEN \* visible_entries[selected_index]: index out of bounds
         {[panic |-> TRUE, master_entries |-> master, visible_entries |-> visible,
           selected |-> sel]}
    ELSE LET selected_path == visible[Unwrap(sel) + 1].path
             new_master == FlipExpanded(master, selected_path)
             new_visible == regenerate_visible_entries(new_master)
         IN { [panic |-> r.panic, master_entries |-> new_master,
               visible_entries |-> new_visible, selected |-> r.selected] :
              r \in Reselect(new_visible, selected_path, Unwrap(sel)) }

\* tests::setup_test_app_state: a hand-built master sequence, no sort, every
\* directory collapsed, select(Some(0))
setup_test_app_state(stream) ==
    LET master == [k \in 1..(Len(stream) - 1) |-> FileEntry(stream[k + 1])]
    IN [master_entries |-> master,
        visible_entries |-> regenerate_visible_entries(master),
        selected |-> Some(0)]

----------------------------------------------------------------------------
(* main: the static view (view::run) and the interactive session         *)
(* (tui::run and run_app)                                                  *)

\* tui::PostExitAction
PostExitNone == [kind |-> "None", path |-> <<>>]
OpenFile(path) == [kind |-> "OpenFile", path |-> path]
PrintPath(path) == [kind |-> "PrintPath", path |-> path]

ExpandLevels == {None} \cup {Some(l) : l \in 0..MaxExpandLevel}

\* what args.path names on disk
Paths == {"directory", "file"}

\* the is_dir test passing whatever the path names
is_dir_Unchecked(path) == TRUE

\* args.path.is_dir()
is_dir(path) == path = "directory"

\* app::InteractiveArgs (the fields the tree state reads)
InteractiveArgs == [path : Paths, expand_level : ExpandLevels, sort : SortOptions]

\* app::ViewArgs (the fields that choose and order the lines)
ViewArgs == [path : Paths, sort : SortOptions, dirs_only : BOOLEAN]

\* what WalkBuilder yields for a path that is a file: the file itself, depth 0
WalkOfFile == <<[path |-> <<>>, is_dir |-> FALSE, size |-> 1, modified |-> None]>>

\* the terminal as the shell left it, and as setup_terminal leaves it
Cooked == [raw_mode |-> FALSE, alternate_screen |-> FALSE]
RawAlternate == [raw_mode |-> TRUE, alternate_screen |-> TRUE]

\* anyhow::bail!("'{}' is not a directory.", ..)
NotADirectory == "is not a directory"

\* a line on standard output
Line(kind, indent, name, dirs, files) ==
    [kind |-> kind, indent |-> indent, name |-> name, dirs |-> dirs, files |-> files]

NoHistory == [master_entries |-> <<>>, visible_entries |-> <<>>, selected |-> None]

\* main: the arguments are parsed and the command is chosen
Init ==
    /\ \/ pc = "new" /\ args \in InteractiveArgs
       \/ pc = "view" /\ args \in ViewArgs
    /\ walk \in IF args.path = "directory" THEN WalkStreams ELSE {WalkOfFile}
    /\ master_entries = <<>>
    /\ visible_entries = <<>>
    /\ selected = None
    /\ outcome = None
    /\ terminal = Cooked
    /\ stdout = <<>>
    /\ error = None
    /\ siblings = <<>>
    /\ ordering = None
    /\ op = "start"
    /\ prev = NoHistory

\* run returns Err before it has done anything else
Bail(message) ==
    /\ pc' = "error"
    /\ error' = Some(message)
    /\ op' = "bail"
    /\ prev' = Snapshot
    /\ UNCHANGED <<siblings, ordering, args, walk, master_entries, visible_entries, selected, outcome,
                   terminal, stdout>>

\* view::run, the entry loop: dirs_only skips files; a line carries the
\* indent (depth - 1) and the file name
RECURSIVE ViewLines(_, _, _)
ViewLines(entries, dirs_only, k) ==
    IF k > Len(entries) THEN <<>>
    ELSE IF dirs_only /\ ~entries[k].is_dir THEN ViewLines(entries, dirs_only, k + 1)
    ELSE <<Line("entry", depth(entries[k]) - 1, file_name(entries[k]), 0, 0)>>
           \o ViewLines(entries, dirs_only, k + 1)

\* view::run, dir_count / file_count over the lines written
RECURSIVE CountDirs(_, _, _)
CountDirs(entries, dirs_only, k) ==
    IF k > Len(entries) THEN 0
    ELSE (IF entries[k].is_dir THEN 1 ELSE 0) + CountDirs(entries, dirs_only, k + 1)

RECURSIVE CountFiles(_, _, _)
CountFiles(entries, dirs_only, k) ==
    IF k > Len(entries) THEN 0
    ELSE (IF ~entries[k].is_dir /\ ~dirs_only THEN 1 ELSE 0)
           + CountFiles(entries, dirs_only, k + 1)

\* view::run: the is_dir test, then the header, the sorted walk and the summary
\* (on a standard output that takes every line)
ViewRun ==
    /\ pc = "view"
    /\ IF ~is_dir(args.path) THEN Bail(NotADirectory)
       ELSE /\ stdout' = <<Line("header", 0, <<>>, 0, 0)>>
                  \o ViewLines(sort_entries(FilterNotRoot(walk, 1), args.sort),
                               args.dirs_only, 1)
                  \o <<Line("summary", 0, <<>>,
                            CountDirs(FilterNotRoot(walk, 1), args.dirs_only, 1),
                            CountFiles(FilterNotRoot(walk, 1), args.dirs_only, 1))>>
            /\ pc' = "exit"
            /\ op' = "view"
            /\ prev' = Snapshot
            /\ UNCHANGED <<siblings, ordering, args, walk, master_entries, visible_entries, selected,
                           outcome, terminal, error>>

\* tui::run: the is_dir test, then AppState::new(args, &root_path):
\* scan_directory, the expand-level loop, regenerate_visible_entries,
\* select(Some(0)) unless nothing is visible
AppStateNew ==
    /\ pc = "new"
    /\ IF ~is_dir(args.path) THEN Bail(NotADirectory)
       ELSE /\ master_entries' =
                   InitialExpand(scan_directory(walk, args.sort), args.expand_level)
            /\ visible_entries' = regenerate_visible_entries(master_entries')
            /\ selected' = InitialSelection(visible_entries')
            /\ pc' = "setup_terminal"
            /\ op' = "new"
            /\ prev' = Snapshot
            /\ UNCHANGED <<siblings, ordering, args, walk, outcome, terminal, stdout, error>>

\* setup_terminal: enable_raw_mode()?, execute!(EnterAlternateScreen, ..)?,
\* Terminal::new(backend); each of the three can fail, and what was switched
\* before the failure stays switched
setup_terminal ==
    { [ok |-> TRUE, terminal |-> RawAlternate],
      [ok |-> FALSE, terminal |-> Cooked],
      [ok |-> FALSE, terminal |-> [raw_mode |-> TRUE, alternate_screen |-> FALSE]],
      [ok |-> FALSE, terminal |-> RawAlternate] }

\* restore_terminal: disable_raw_mode, LeaveAlternateScreen
restore_terminal == Cooked

\* run: let mut terminal = setup_terminal()?
SetupTerminal ==
    /\ pc = "setup_terminal"
    /\ \E r \in setup_terminal :
          /\ terminal' = r.terminal
          /\ pc' = IF r.ok THEN "run_app" ELSE "error"
          /\ error' = IF r.ok THEN None ELSE Some("setup_terminal")
    /\ op' = "setup_terminal"
    /\ prev' = Snapshot
    /\ UNCHANGED <<siblings, ordering, args, walk, master_entries, visible_entries, selected, outcome, stdout>>

\* a method that only moves the selection has run
Moved(results, name, at) ==
    \E r \in results :
        /\ Len(visible_entries) = 0 /\ IsSome(r.selected) => WithinCap(Unwrap(r.selected))
        /\ selected' = r.selected
        /\ pc' = IF r.panic THEN "panic" ELSE at
        /\ op' = name
        /\ prev' = Snapshot
        /\ UNCHANGED <<siblings, ordering, args, walk, master_entries, visible_entries, outcome,
                       terminal, stdout, error>>

\* toggle_selected_directory has run
Toggled(at) ==
    \E r \in toggle_selected_directory(master_entries, visible_entries, selected) :
        /\ master_entries' = r.master_entries
        /\ visible_entries' = r.visible_entries
        /\ selected' = r.selected
        /\ pc' = IF r.panic THEN "panic" ELSE at
        /\ op' = "toggle"
        /\ prev' = Snapshot
        /\ UNCHANGED <<siblings, ordering, args, walk, outcome, terminal, stdout, error>>

\* run_app breaks with a PostExitAction; run then calls restore_terminal and
\* matches on the action: OpenFile spawns the editor on the path, PrintPath
\* prints the path on standard output
Break(action, name) ==
    /\ pc' = "exit"
    /\ outcome' = Some(action)
    /\ terminal' = restore_terminal
    /\ stdout' = IF action.kind = "PrintPath"
                 THEN Append(stdout, Line("path", 0, action.path, 0, 0))
                 ELSE stdout
    /\ op' = name
    /\ prev' = Snapshot
    /\ UNCHANGED <<siblings, ordering, args, walk, master_entries, visible_entries, selected, error>>

\* a key event that changes nothing
Ignored(name) ==
    /\ op' = name
    /\ prev' = Snapshot
    /\ UNCHANGED <<siblings, ordering, pc, args, walk, master_entries, visible_entries, selected, outcome,
                   terminal, stdout, error>>

\* run_app returns Err through `?`, and so does run: restore_terminal is
\* not reached
Failed(message, name) ==
    /\ pc' = "error"
    /\ error' = Some(message)
    /\ op' = name
    /\ prev' = Snapshot
    /\ UNCHANGED <<siblings, ordering, args, walk, master_entries, visible_entries, selected, outcome,
                   terminal, stdout>>

\* terminal.draw(..)? returns Err
DrawError == pc = "run_app" /\ Failed("draw", "draw_error")

\* event::read()? returns Err
ReadError == pc = "run_app" /\ Failed("read", "read_error")

\* KeyCode::Down | KeyCode::Char('j')
KeyDown == pc = "run_app" /\ Moved(next(visible_entries, selected), "next", "run_app")

\* KeyCode::Up | KeyCode::Char('k')
KeyUp == pc = "run_app" /\ Moved(previous(visible_entries, selected), "previous", "run_app")

\* Enter opening whatever is selected, directories included
KeyEnter_OpensDirectories ==
    /\ pc = "run_app"
    /\ LET entry == get_selected_entry(visible_entries, selected)
       IN IF IsSome(entry) THEN Break(OpenFile(Unwrap(entry).path), "open")
          ELSE Ignored("enter")

\* KeyCode::Enter
KeyEnter ==
    /\ pc = "run_app"
    /\ LET entry == get_selected_entry(visible_entries, selected)
       IN IF IsSome(entry)
          THEN IF Unwrap(entry).is_dir THEN Toggled("run_app")
               ELSE Break(OpenFile(Unwrap(entry).path), "open")
          ELSE Ignored("enter")

\* KeyCode::Char('s') with KeyModifiers::CONTROL
KeyCtrlS ==
    /\ pc = "run_app"
    /\ LET entry == get_selected_entry(visible_entries, selected)
       IN IF IsSome(entry) THEN Break(PrintPath(Unwrap(entry).path), "print")
          ELSE Ignored("ctrl_s")

\* KeyCode::Char('q') | KeyCode::Esc
KeyQuit == pc = "run_app" /\ Break(PostExitNone, "quit")

\* any other key, a key release, an event that is no key
KeyOther == pc = "run_app" /\ Ignored("other")

Next ==
    \/ ViewRun
    \/ AppStateNew
    \/ SetupTerminal
    \/ DrawError
    \/ ReadError
    \/ KeyDown
    \/ KeyUp
    \/ KeyEnter
    \/ KeyCtrlS
    \/ KeyQuit
    \/ KeyOther

Spec == Init /\ [][Next]_vars

----------------------------------------------------------------------------
(* The AppState methods called directly, as tui.rs's unit tests call them *)

NoArgs == [path |-> "directory", expand_level |-> None,
           sort |-> [sort_type |-> "Name", directories_first |-> FALSE,
                     case_sensitive |-> FALSE, natural_sort |-> FALSE,
                     reverse |-> FALSE, dotfiles_first |-> FALSE]]

InitTest ==
    /\ pc = "test"
    /\ args = NoArgs
    /\ walk \in {w \in WalkStreams : Len(w) > 1}
    /\ LET app == setup_test_app_state(walk)
       IN /\ master_entries = app.master_entries
          /\ visible_entries = app.visible_entries
          /\ selected = app.selected
    /\ outcome = None
    /\ terminal = Cooked
    /\ stdout = <<>>
    /\ error = None
    /\ siblings = <<>>
    /\ ordering = None
    /\ op = "setup"
    /\ prev = NoHistory

\* app_state.next()
CallNext == pc = "test" /\ Moved(next(visible_entries, selected), "next", "test")

\* app_state.previous()
CallPrevious == pc = "test" /\ Moved(previous(visible_entries, selected), "previous", "test")

\* app_state.toggle_selected_directory()
CallToggle == pc = "test" /\ Toggled("test")

\* app_state.toggle_selected_directory() twice in a row, as
\* tests::test_toggle_directory calls it
CallToggleTwice ==
    /\ pc = "test"
    /\ \E r1 \in toggle_selected_directory(master_entries, visible_entries, selected) :
          \E r2 \in IF r1.panic THEN {r1}
                    ELSE toggle_selected_directory(r1.master_entries, r1.visible_entries,
                                                   r1.selected) :
              /\ master_entries' = r2.master_entries
              /\ visible_entries' = r2.visible_entries
              /\ selected' = r2.selected
              /\ pc' = IF r2.panic THEN "panic" ELSE "test"
    /\ op' = "toggle_twice"
    /\ prev' = Snapshot
    /\ UNCHANGED <<siblings, ordering, args, walk, outcome, terminal, stdout, error>>

NextTest ==
    \/ CallNext
    \/ CallPrevious
    \/ CallToggle
    \/ CallToggleTwice

SpecTest == InitTest /\ [][NextTest]_vars

----------------------------------------------------------------------------
(* The Ordering Engine called directly on the entries of one directory *)

\* at most this many sibling entries are sorted
MaxSiblings == 3

\* the entries of one directory: .git/, a/, a.d/, .env, a10.txt, a2.txt,
\* aB.md, ab.MD (a directory's metadata().len() is not 0)
SiblingPool ==
    { DirEntry(<< <<46, 103, 105, 116>> >>, TRUE, 9, Some(3)),
      DirEntry(<< <<97>> >>, TRUE, 9, Some(1)),
      DirEntry(<< <<97, 46, 100>> >>, TRUE, 6, None),
      DirEntry(<< <<46, 101, 110, 118>> >>, FALSE, 2, None),
      DirEntry(<< <<97, 49, 48, 46, 116, 120, 116>> >>, FALSE, 5, Some(2)),
      DirEntry(<< <<97, 50, 46, 116, 120, 116>> >>, FALSE, 5, Some(4)),
      DirEntry(<< <<97, 66, 46, 109, 100>> >>, FALSE, 1, None),
      DirEntry(<< <<97, 98, 46, 77, 68>> >>, FALSE, 7, Some(2)) }

\* file1.txt, file2.txt, file10.txt
e_file1_txt == DirEntry(<< <<102, 105, 108, 101, 49, 46, 116, 120, 116>> >>, FALSE, 1, Some(1))
e_file2_txt == DirEntry(<< <<102, 105, 108, 101, 50, 46, 116, 120, 116>> >>, FALSE, 1, Some(1))
e_file10_txt ==
    DirEntry(<< <<102, 105, 108, 101, 49, 48, 46, 116, 120, 116>> >>, FALSE, 1, Some(1))

\* B2, a10
e_B2 == DirEntry(<< <<66, 50>> >>, FALSE, 1, Some(1))
e_a10 == DirEntry(<< <<97, 49, 48>> >>, FALSE, 1, Some(1))

\* the slices of n different entries of a pool, in any order
SlicesOf(pool, n) == {f \in [1..n -> pool] : \A i, j \in 1..n : f[i] = f[j] => i = j}

\* the slices tried: up to MaxSiblings different entries of the pool, and the
\* two directories file1.txt, file2.txt, file10.txt and B2, a10
SiblingSlices ==
    UNION {SlicesOf(SiblingPool, n) : n \in 0..MaxSiblings}
      \cup SlicesOf({e_file1_txt, e_file2_txt, e_file10_txt}, 3)
      \cup SlicesOf({e_B2, e_a10}, 2)

InitSort ==
    /\ pc = "sort"
    /\ args \in [sort : SortOptions]
    /\ siblings \in SiblingSlices
    /\ ordering = None
    /\ walk = <<>>
    /\ master_entries = <<>>
    /\ visible_entries = <<>>
    /\ selected = None
    /\ outcome = None
    /\ terminal = Cooked
    /\ stdout = <<>>
    /\ error = None
    /\ op = "input"
    /\ prev = [siblings |-> <<>>]

\* sort_entries(&mut entries, &options), a first and a second time
CallSortEntries ==
    /\ pc = "sort"
    /\ op \in {"input", "sorted"}
    /\ siblings' = sort_entries(siblings, args.sort)
    /\ op' = IF op = "input" THEN "sorted" ELSE "resorted"
    /\ prev' = [siblings |-> siblings]
    /\ UNCHANGED <<pc, args, walk, master_entries, visible_entries, selected, outcome,
                   terminal, stdout, error, ordering>>

\* compare_entries(&entries[0], &entries[1], &options)
CallCompareEntries ==
    /\ pc = "sort"
    /\ op = "input"
    /\ Len(siblings) >= 2
    /\ ordering' = Some(compare_entries(siblings[1], siblings[2], args.sort))
    /\ op' = "compared"
    /\ prev' = [siblings |-> siblings]
    /\ UNCHANGED <<pc, args, walk, master_entries, visible_entries, selected, outcome,
                   terminal, stdout, error, siblings>>

NextSort ==
    \/ CallSortEntries
    \/ CallCompareEntries

SpecSort == InitSort /\ [][NextSort]_vars

----------------------------------------------------------------------------
(* Vocabulary of the properties *)

\* AppState exists: construction is done
Constructed == op \notin {"start", "bail", "view"}

\* Pre-order over FileEntry: a depth-1 entry has depth 1; a deeper entry has
\* its parent directory before it, one depth up, with only descendants of
\* that parent in between (the parent heads one contiguous block).
IsPreOrder(m) ==
    \A k \in Idx(m) :
        IF Len(m[k].path) = 1 THEN m[k].depth = 1
        ELSE \E j \in 1..(k-1) :
                /\ m[j].path = Front(m[k].path)
                /\ m[j].is_dir
                /\ m[k].depth = m[j].depth + 1
                /\ \A i \in j..k : IsPrefix(m[j].path, m[i].path)

\* the path is one of the visible entries
InVisible(v, path) == \E i \in Idx(v) : v[i].path = path

\* every ancestor of m[k], taken as the nearest preceding entry of each
\* smaller depth, is expanded
AncestorsByDepthExpanded(m, k) ==
    \A d \in 1..(m[k].depth - 1) :
        \E j \in 1..(k-1) :
            /\ m[j].depth = d
            /\ \A i \in (j+1)..(k-1) : m[i].depth # d
            /\ m[j].is_expanded

\* every directory on the path, below the root and above the entry itself,
\* is expanded
AncestorsByPathExpanded(m, path) ==
    \A n \in 1..(Len(path) - 1) :
        \E j \in Idx(m) : m[j].path = SubSeq(path, 1, n) /\ m[j].is_expanded

\* the selection is Some(i) with i an index of the list
SelectionInRange(v, sel) == IsSome(sel) /\ Unwrap(sel) >= 0 /\ Unwrap(sel) < Len(v)

----------------------------------------------------------------------------
(* Properties *)

\* C1: for a master sequence in pre-order, after construction and after any
\* sequence of moves and toggles, an entry is visible iff every ancestor
\* directory (the nearest preceding entry of each smaller depth) is expanded;
\* depth-1 entries are always visible.
C1_VisibleIffAncestorsExpanded ==
    Constructed /\ IsPreOrder(master_entries) =>
        \A k \in Idx(master_entries) :
            /\ InVisible(visible_entries, master_entries[k].path)
                 <=> AncestorsByDepthExpanded(master_entries, k)
            /\ master_entries[k].depth = 1 => InVisible(visible_entries, master_entries[k].path)

\* C1 witness: toggles have left a pre-order master with an expanded
\* directory inside a collapsed one: the grandchild is hidden although its
\* parent is expanded.
C1_Witness ==
    /\ op = "toggle"
    /\ IsPreOrder(master_entries)
    /\ \E k \in Idx(master_entries) :
         /\ master_entries[k].depth = 3
         /\ ~InVisible(visible_entries, master_entries[k].path)
         /\ \E j \in Idx(master_entries) :
              /\ master_entries[j].path = Front(master_entries[k].path)
              /\ master_entries[j].is_expanded

\* C2 (as claimed): for every Ordering configuration and every depth-first
\* walk, the sequence sort_entries produces for scan_directory is in pre-order.
C2_SortedIsPreOrder == Constructed => IsPreOrder(master_entries)

\* C3 (as claimed): in a session built by scan_directory, an entry is visible
\* only when every directory on its path below the root is expanded; with all
\* directories collapsed exactly the root's direct children are shown.
C3_VisibleOnlyUnderExpanded ==
    Constructed =>
        /\ \A i \in Idx(visible_entries) :
              AncestorsByPathExpanded(master_entries, visible_entries[i].path)
        /\ (\A k \in Idx(master_entries) : ~master_entries[k].is_expanded) =>
              \A k \in Idx(master_entries) :
                  InVisible(visible_entries, master_entries[k].path)
                    <=> master_entries[k].depth = 1

\* C4: with a non-empty master sequence the selection is always an index of
\* the visible sequence, and construction selects index 0.
C4_SelectionInRange ==
    Constructed /\ master_entries # <<>> =>
        /\ SelectionInRange(visible_entries, selected)
        /\ op = "new" => selected = Some(0)

\* C4 witness: move_previous from index 0 of a list of several entries has
\* put the selection on the last index.
C4_Witness ==
    /\ op = "previous"
    /\ Len(visible_entries) >= 3
    /\ prev.selected = Some(0)
    /\ selected = Some(Len(visible_entries) - 1)

\* C5 (as claimed): with an empty master sequence every operation completes
\* without a panic and leaves the selection none.
C5_EmptyIsNoOp ==
    Constructed /\ master_entries = <<>> => selected = None /\ pc # "panic"

\* C6: on a non-empty visible sequence of length n with selection i,
\* move_next selects (i+1) mod n and move_previous selects (i-1) mod n.
C6_MoveWraps ==
    /\ (op = "next" /\ prev.visible_entries # <<>> /\ IsSome(prev.selected)) =>
          selected = Some((Unwrap(prev.selected) + 1) % Len(prev.visible_entries))
    /\ (op = "previous" /\ prev.visible_entries # <<>> /\ IsSome(prev.selected)) =>
          selected = Some((Unwrap(prev.selected) + Len(prev.visible_entries) - 1)
                            % Len(prev.visible_entries))

\* C6 witness: move_next from the last index of a list of several entries
\* has selected the first.
C6_Witness ==
    /\ op = "next"
    /\ Len(prev.visible_entries) >= 3
    /\ prev.selected = Some(Len(prev.visible_entries) - 1)
    /\ selected = Some(0)

\* the path selected before the last operation
PrevSelectedPath == prev.visible_entries[Unwrap(prev.selected) + 1].path

\* the last operation was a toggle_expansion that ran to its end on a selection
ToggleDone ==
    /\ op = "toggle"
    /\ pc # "panic"
    /\ SelectionInRange(prev.visible_entries, prev.selected)

\* C7: after toggle_expansion, if the path selected before it is still
\* visible, the selection is the index of that path in the new visible
\* sequence.
C7_SelectionFollowsPath ==
    ToggleDone /\ InVisible(visible_entries, PrevSelectedPath) =>
        /\ SelectionInRange(visible_entries, selected)
        /\ visible_entries[Unwrap(selected) + 1].path = PrevSelectedPath

\* C7 witness: a toggle below the first line has changed the visible
\* sequence and the selection is on the path it was on.
C7_Witness ==
    /\ ToggleDone
    /\ Unwrap(prev.selected) >= 1
    /\ Len(visible_entries) # Len(prev.visible_entries)
    /\ SelectionInRange(visible_entries, selected)
    /\ visible_entries[Unwrap(selected) + 1].path = PrevSelectedPath

\* the last operation was a toggle_expansion that expanded a directory
ToggleExpanded ==
    /\ ToggleDone
    /\ \E k \in Idx(master_entries) :
          /\ master_entries[k].path = PrevSelectedPath
          /\ master_entries[k].is_dir
          /\ master_entries[k].is_expanded
          /\ ~prev.master_entries[k].is_expanded

\* the immediate children of a directory, as indices of the master sequence
ChildrenOf(m, path) == {k \in Idx(m) : Len(m[k].path) > 0 /\ Front(m[k].path) = path}

\* its visible strict descendants, as indices of the visible sequence
VisibleDescendants(v, path) == {k \in Idx(v) : IsStrictPrefix(path, v[k].path)}

SelectedPathStaysVisible ==
    ToggleDone => InVisible(visible_entries, PrevSelectedPath)

\* C10: after construction with initial-expand level L an entry is expanded
\* iff it is a directory of depth < L (none when no level is given), and the
\* first visible sequence is the projection under those flags.
C10_InitialExpand ==
    op = "new" =>
        /\ \A k \in Idx(master_entries) :
              master_entries[k].is_expanded <=>
                  /\ master_entries[k].is_dir
                  /\ IsSome(args.expand_level)
                  /\ master_entries[k].depth < Unwrap(args.expand_level)
        /\ visible_entries = regenerate_visible_entries(master_entries)
        /\ \A i \in Idx(visible_entries) : \E k \in Idx(master_entries) :
              visible_entries[i] = master_entries[k]

\* C10 witness: construction with level 2 has expanded a depth-1 directory,
\* left a depth-2 directory collapsed and shows an entry of depth 2.
C10_Witness ==
    /\ op = "new"
    /\ args.expand_level = Some(2)
    /\ \E k \in Idx(master_entries) :
          master_entries[k].depth = 1 /\ master_entries[k].is_expanded
    /\ \E k \in Idx(master_entries) :
          /\ master_entries[k].depth = 2
          /\ master_entries[k].is_dir
          /\ ~master_entries[k].is_expanded
    /\ \E i \in Idx(visible_entries) : visible_entries[i].depth = 2

\* the session has ended in one of the ways that follow a successful
\* setup_terminal: a break of run_app, or an Err from draw or event::read
SessionEnded == op \in {"quit", "open", "print", "draw_error", "read_error"}

\* C11 (as claimed): once setup_terminal has switched the terminal, every
\* end of the session (quit, open, print, an error while drawing or reading
\* an event) leaves raw mode disabled and the alternate screen left.
C11_TerminalRestored ==
    SessionEnded => ~terminal.raw_mode /\ ~terminal.alternate_screen

\* C12: when args.path is not a directory, the static view and the
\* interactive mode both return the 'is not a directory' error as their
\* first step: no entry is scanned, no tree state is built, the terminal is
\* not switched and nothing is written to standard output.
C12_NotADirectoryFailsFirst ==
    args.path # "directory" /\ op # "start" =>
        /\ pc = "error"
        /\ error = Some(NotADirectory)
        /\ master_entries = <<>> /\ visible_entries = <<>> /\ selected = None
        /\ terminal = Cooked
        /\ stdout = <<>>
        /\ outcome = None

\* C12 witness: the static view has been run on a path that is a file and
\* has returned the error.
C12_Witness ==
    /\ op = "bail"
    /\ "dirs_only" \in DOMAIN args
    /\ args.path = "file"
    /\ error = Some(NotADirectory)

\* the last key was Enter
EnterPressed == op \in {"toggle", "open", "enter"}

\* the entry that was selected when the last key arrived
PrevSelectedEntry == get_selected_entry(prev.visible_entries, prev.selected)

\* C13: Enter with a directory selected has exactly the effect of
\* toggle_expansion and the session keeps running; with a file selected it
\* ends the session with the outcome 'open <selected path>' and changes no
\* is_expanded flag, no visible entry and no selection.
C13_Activate ==
    EnterPressed /\ IsSome(PrevSelectedEntry) =>
        IF Unwrap(PrevSelectedEntry).is_dir
        THEN /\ op = "toggle"
             /\ pc = "run_app"
             /\ outcome = None
             /\ [panic |-> FALSE, master_entries |-> master_entries,
                 visible_entries |-> visible_entries, selected |-> selected]
                  \in toggle_selected_directory(prev.master_entries,
                                                prev.visible_entries, prev.selected)
        ELSE /\ op = "open"
             /\ pc = "exit"
             /\ outcome = Some(OpenFile(Unwrap(PrevSelectedEntry).path))
             /\ master_entries = prev.master_entries
             /\ visible_entries = prev.visible_entries
             /\ selected = prev.selected

\* C13 witness: Enter on a file below the first line, in a tree where a
\* directory is expanded, has ended the session with 'open' of that file.
C13_Witness ==
    /\ op = "open"
    /\ pc = "exit"
    /\ Unwrap(prev.selected) >= 1
    /\ \E k \in Idx(master_entries) : master_entries[k].is_expanded
    /\ ~Unwrap(PrevSelectedEntry).is_dir
    /\ outcome = Some(OpenFile(visible_entries[Unwrap(selected) + 1].path))

\* the last step was the handling of a key event
KeyHandled ==
    op \in {"next", "previous", "toggle", "enter", "ctrl_s", "other",
            "quit", "open", "print"}

SiblingSet == {siblings[k] : k \in Idx(siblings)}

\* a <= b under the comparator sort_entries hands to sort_by
Leq(a, b, options) == SortCmp(a, b, options) # Greater

\* C15: for every configuration the comparator of sort_entries is a total
\* order on sibling entries as a sort needs it: compare(a,b) is the reverse
\* of compare(b,a), compare(a,a) is Equal, and a <= b, b <= c imply a <= c,
\* across the directories-first / dotfiles-first buckets and for each
\* primary key.  The entries are those of the slice handed to the sort or
\* to compare_entries; sorting only permutes them.
C15_TotalOrder ==
    op \in {"input", "compared"} =>
        \A a \in SiblingSet :
            /\ SortCmp(a, a, args.sort) = Equal
            /\ \A b \in SiblingSet :
                /\ SortCmp(a, b, args.sort) = Reverse(SortCmp(b, a, args.sort))
                /\ compare_entries(a, b, args.sort) = Reverse(compare_entries(b, a, args.sort))
                /\ Leq(a, b, args.sort) =>
                       \A c \in SiblingSet :
                           Leq(b, c, args.sort) => Leq(a, c, args.sort)

\* C15 witness: compare_entries has been applied to a directory and a file
\* with dotfiles-first on and the modified-time key, and a third entry of
\* another bucket follows both.
C15_Witness ==
    /\ op = "compared"
    /\ Len(siblings) = 3
    /\ args.sort.dotfiles_first /\ args.sort.sort_type = "Modified"
    /\ siblings[1].is_dir /\ is_dotfile(siblings[2]) /\ ~siblings[2].is_dir
    /\ ~siblings[3].is_dir /\ ~is_dotfile(siblings[3])
    /\ ordering = Some(Less)
    /\ compare_entries(siblings[2], siblings[3], args.sort) = Less
    /\ compare_entries(siblings[1], siblings[3], args.sort) = Less

\* C16: for every configuration and every input sequence, sorting the
\* sorted sequence again with the same configuration yields the same
\* sequence.
C16_SortIdempotent ==
    /\ op = "resorted" => siblings = prev.siblings
    /\ op = "sorted" => sort_entries(siblings, args.sort) = siblings

\* C16 witness: a slice of three entries, two of which compare Equal, has
\* been sorted twice in reverse order.
C16_Witness ==
    /\ op = "resorted"
    /\ Len(siblings) = 3
    /\ args.sort.reverse
    /\ \E i, j \in Idx(siblings) :
          i < j /\ SortCmp(siblings[i], siblings[j], args.sort) = Equal
    /\ siblings = prev.siblings

\* the sequence back to front
Reversed(seq) == [k \in Idx(seq) |-> seq[Len(seq) + 1 - k]]

\* the configuration with the reverse flag set as given
WithReverse(options, flag) == [options EXCEPT !.reverse = flag]

\* no two elements of the sequence compare Equal under the non-reversed
\* configuration
NoTwoEqual(seq, options) ==
    \A i, j \in Idx(seq) :
        i # j => compare_entries(seq[i], seq[j], WithReverse(options, FALSE)) # Equal

\* C17: for an input in which no two elements compare Equal under the
\* non-reversed configuration, sorting with reverse = true yields the
\* element-wise reverse of sorting with reverse = false: the whole
\* comparison is inverted, the directories-first / dotfiles-first precedence
\* included.
C17_ReverseIsReversedSort ==
    op = "sorted" /\ NoTwoEqual(prev.siblings, args.sort) =>
        siblings = Reversed(sort_entries(prev.siblings,
                                         WithReverse(args.sort, ~args.sort.reverse)))

\* C17 witness: three entries, no two Equal, sorted in reverse with
\* directories-first on: the files come first and the directory last.
C17_Witness ==
    /\ op = "sorted"
    /\ args.sort.reverse /\ args.sort.directories_first /\ ~args.sort.dotfiles_first
    /\ Len(siblings) = 3
    /\ NoTwoEqual(prev.siblings, args.sort)
    /\ prev.siblings # siblings
    /\ ~siblings[1].is_dir /\ ~siblings[2].is_dir /\ siblings[3].is_dir
    /\ siblings = Reversed(sort_entries(prev.siblings, WithReverse(args.sort, FALSE)))

\* the dotfiles-first bucket of an entry: dot-directory 0, regular
\* directory 1, dot-file 2, regular file 3
Bucket(e) ==
    IF e.is_dir THEN (IF is_dotfile(e) THEN 0 ELSE 1)
    ELSE (IF is_dotfile(e) THEN 2 ELSE 3)

\* C18: with dotfiles_first = true, compare_entries orders entries by bucket
\* dot-directories < regular directories < dot-files < regular files,
\* whatever the primary key and whatever directories_first is; two entries
\* of one bucket are ordered by the primary key.  The sorted slice follows
\* the buckets (back to front under reverse, which inverts the whole
\* comparison).
C18_DotfilesFirstBuckets ==
    pc = "sort" /\ args.sort.dotfiles_first =>
        /\ \A a, b \in SiblingSet :
              /\ Bucket(a) < Bucket(b) => compare_entries(a, b, args.sort) = Less
              /\ Bucket(a) > Bucket(b) => compare_entries(a, b, args.sort) = Greater
              /\ Bucket(a) = Bucket(b) =>
                    compare_entries(a, b, args.sort) = ComparePrimary(a, b, args.sort)
        /\ op = "compared" /\ Bucket(siblings[1]) # Bucket(siblings[2]) =>
              ordering = Some(CmpInt(Bucket(siblings[1]), Bucket(siblings[2])))
        /\ op \in {"sorted", "resorted"} =>
              \A i, j \in Idx(siblings) :
                  i < j =>
                     /\ ~args.sort.reverse => Bucket(siblings[i]) <= Bucket(siblings[j])
                     /\ args.sort.reverse => Bucket(siblings[i]) >= Bucket(siblings[j])
                     /\ Bucket(siblings[i]) = Bucket(siblings[j]) =>
                           IF args.sort.reverse
                           THEN ComparePrimary(siblings[i], siblings[j], args.sort) # Less
                           ELSE ComparePrimary(siblings[i], siblings[j], args.sort) # Greater

\* C18 witness: a dot-file, a regular directory and a dot-directory, handed
\* over in that order with dotfiles-first on and directories-first off, have
\* been sorted to dot-directory, regular directory, dot-file.
C18_Witness ==
    /\ op = "sorted"
    /\ args.sort.dotfiles_first /\ ~args.sort.directories_first /\ ~args.sort.reverse
    /\ Len(siblings) = 3
    /\ Bucket(prev.siblings[1]) = 2 /\ Bucket(prev.siblings[2]) = 1
    /\ Bucket(prev.siblings[3]) = 0
    /\ Bucket(siblings[1]) = 0 /\ Bucket(siblings[2]) = 1 /\ Bucket(siblings[3]) = 2

\* C19: with directories_first = true and dotfiles_first = false,
\* compare_entries puts every directory before every file regardless of the
\* primary key; two directories, or two files, are ordered by the primary
\* key.  The sorted slice has its directories first (last under reverse,
\* which inverts the whole comparison).
C19_DirectoriesFirst ==
    pc = "sort" /\ args.sort.directories_first /\ ~args.sort.dotfiles_first =>
        /\ \A a, b \in SiblingSet :
              /\ a.is_dir /\ ~b.is_dir => compare_entries(a, b, args.sort) = Less
              /\ ~a.is_dir /\ b.is_dir => compare_entries(a, b, args.sort) = Greater
              /\ a.is_dir = b.is_dir =>
                    compare_entries(a, b, args.sort) = ComparePrimary(a, b, args.sort)
        /\ op = "compared" /\ siblings[1].is_dir /\ ~siblings[2].is_dir =>
              ordering = Some(Less)
        /\ op \in {"sorted", "resorted"} =>
              \A i, j \in Idx(siblings) :
                  i < j =>
                     /\ ~args.sort.reverse => (siblings[j].is_dir => siblings[i].is_dir)
                     /\ args.sort.reverse => (siblings[i].is_dir => siblings[j].is_dir)
                     /\ siblings[i].is_dir = siblings[j].is_dir =>
                           IF args.sort.reverse
                           THEN ComparePrimary(siblings[i], siblings[j], args.sort) # Less
                           ELSE ComparePrimary(siblings[i], siblings[j], args.sort) # Greater

\* C19 witness: with directories-first on, two directories stand in front
\* of a file that the primary key alone puts before both of them.
C19_Witness ==
    /\ op = "sorted"
    /\ args.sort.directories_first /\ ~args.sort.dotfiles_first /\ ~args.sort.reverse
    /\ Len(siblings) = 3
    /\ siblings[1].is_dir /\ siblings[2].is_dir /\ ~siblings[3].is_dir
    /\ ComparePrimary(siblings[3], siblings[1], args.sort) = Less
    /\ ComparePrimary(siblings[1], siblings[2], args.sort) = Less
    /\ prev.siblings[1] = siblings[3]

\* the class of a character: digit 0, ASCII uppercase 1, ASCII lowercase 2,
\* anything else 3
CharClass(c) ==
    IF c \in 48..57 THEN 0 ELSE IF c \in 65..90 THEN 1 ELSE IF c \in 97..122 THEN 2 ELSE 3

\* the first position at which two names differ, 0 when one is a prefix of
\* the other
FirstDifference(s, t) ==
    IF \E k \in 1..Min(Len(s), Len(t)) : s[k] # t[k]
    THEN CHOOSE k \in 1..Min(Len(s), Len(t)) :
            s[k] # t[k] /\ \A j \in 1..(k-1) : s[j] = t[j]
    ELSE 0

\* the order C20 describes: at the first difference the class decides, then
\* the code point; on a full prefix the shorter name is first
ClassOrder(s, t) ==
    IF FirstDifference(s, t) = 0 THEN CmpInt(Len(s), Len(t))
    ELSE IF CharClass(s[FirstDifference(s, t)]) # CharClass(t[FirstDifference(s, t)])
    THEN CmpInt(CharClass(s[FirstDifference(s, t)]), CharClass(t[FirstDifference(s, t)]))
    ELSE CmpInt(s[FirstDifference(s, t)], t[FirstDifference(s, t)])

\* the configuration compares names case-sensitively, without natural sort
CaseSensitiveNames == args.sort.case_sensitive /\ ~args.sort.natural_sort

\* C20: with case_sensitive = true and natural_sort = false, names are
\* compared position by position with the classes ranked digits < ASCII
\* uppercase < ASCII lowercase < other, by code point within a class, the
\* shorter name first on a full prefix; where nothing but the name key
\* decides, the sorted slice is in that order.
C20_CaseSensitiveOrder ==
    pc = "sort" /\ CaseSensitiveNames =>
        /\ \A a, b \in SiblingSet :
              compare_by_name(a, b, args.sort) = ClassOrder(file_name(a), file_name(b))
        /\ (/\ op = "compared"
            /\ args.sort.sort_type = "Name"
            /\ ~args.sort.dotfiles_first /\ ~args.sort.directories_first) =>
              ordering = Some(ClassOrder(file_name(siblings[1]), file_name(siblings[2])))
        /\ (/\ op \in {"sorted", "resorted"}
            /\ args.sort.sort_type = "Name"
            /\ ~args.sort.dotfiles_first /\ ~args.sort.directories_first
            /\ ~args.sort.reverse) =>
              \A i, j \in Idx(siblings) :
                  i < j => ClassOrder(file_name(siblings[i]), file_name(siblings[j])) = Less

\* C20 witness: three names sorted case-sensitively by name stand in an
\* order that plain byte order would not give: a digit before an uppercase
\* letter before a '.', at the same position.
C20_Witness ==
    /\ op = "sorted"
    /\ CaseSensitiveNames
    /\ args.sort.sort_type = "Name"
    /\ ~args.sort.dotfiles_first /\ ~args.sort.directories_first /\ ~args.sort.reverse
    /\ Len(siblings) = 3
    /\ \A k \in 1..3 : Len(file_name(siblings[k])) >= 2
    /\ CharClass(file_name(siblings[1])[2]) = 0
    /\ CharClass(file_name(siblings[2])[2]) = 1
    /\ CharClass(file_name(siblings[3])[2]) = 3
    /\ StrCmp(file_name(siblings[3]), file_name(siblings[1])) = Less

\* the start of the digit run that reaches position k (k itself when the
\* character before it is no digit)
RECURSIVE RunStart(_, _)
RunStart(s, k) == IF k > 1 /\ IsAsciiDigit(s[k - 1]) THEN RunStart(s, k - 1) ELSE k

\* the number written by the digits from position j on
RECURSIVE RunValue(_, _, _)
RunValue(s, j, acc) ==
    IF j <= Len(s) /\ IsAsciiDigit(s[j]) THEN RunValue(s, j + 1, acc * 10 + (s[j] - 48))
    ELSE acc

\* two names first differ inside a digit run of both that has no leading zero
DifferInDigitRun(s, t) ==
    /\ FirstDifference(s, t) # 0
    /\ \/ IsAsciiDigit(s[FirstDifference(s, t)]) /\ IsAsciiDigit(t[FirstDifference(s, t)])
       \/ /\ RunStart(s, FirstDifference(s, t)) < FirstDifference(s, t)
          /\ \/ IsAsciiDigit(s[FirstDifference(s, t)])
             \/ IsAsciiDigit(t[FirstDifference(s, t)])
    /\ s[RunStart(s, FirstDifference(s, t))] # 48
    /\ t[RunStart(s, FirstDifference(s, t))] # 48

\* only the name key decides and the order is not reversed
NameKeyAlone ==
    /\ args.sort.sort_type = "Name"
    /\ ~args.sort.reverse

\* C21: with natural_sort = true, names that first differ inside a digit
\* run are ordered by the numbers the runs write, so file1.txt, file2.txt,
\* file10.txt sort in that order; with natural_sort = false and
\* case_sensitive = false they sort as file1.txt, file10.txt, file2.txt.
C21_NaturalSort ==
    pc = "sort" =>
        /\ args.sort.natural_sort =>
              \A a, b \in SiblingSet :
                  DifferInDigitRun(file_name(a), file_name(b)) =>
                      compare_by_name(a, b, args.sort) =
                          CmpInt(RunValue(file_name(a),
                                          RunStart(file_name(a),
                                                   FirstDifference(file_name(a), file_name(b))), 0),
                                 RunValue(file_name(b),
                                          RunStart(file_name(a),
                                                   FirstDifference(file_name(a), file_name(b))), 0))
        /\ (/\ op = "sorted"
            /\ NameKeyAlone
            /\ SiblingSet = {e_file1_txt, e_file2_txt, e_file10_txt}) =>
              /\ args.sort.natural_sort =>
                    siblings = <<e_file1_txt, e_file2_txt, e_file10_txt>>
              /\ ~args.sort.natural_sort /\ ~args.sort.case_sensitive =>
                    siblings = <<e_file1_txt, e_file10_txt, e_file2_txt>>

\* C21 witness: file10.txt, file2.txt, file1.txt, handed over in that order,
\* have been sorted with natural_sort on to file1.txt, file2.txt, file10.txt.
C21_Witness ==
    /\ op = "sorted"
    /\ NameKeyAlone /\ args.sort.natural_sort
    /\ prev.siblings = <<e_file10_txt, e_file2_txt, e_file1_txt>>
    /\ siblings = <<e_file1_txt, e_file2_txt, e_file10_txt>>
    /\ sort_entries(prev.siblings, [args.sort EXCEPT !.natural_sort = FALSE,
                                                     !.case_sensitive = FALSE])
          = <<e_file1_txt, e_file10_txt, e_file2_txt>>

\* C22 (as claimed): with natural_sort = true and case_sensitive = false,
\* names are case-folded before the natural comparison: two names that
\* differ only in letter case compare Equal, and B2 sorts after a10.
C22_NaturalFoldsCase ==
    pc = "sort" /\ args.sort.natural_sort /\ ~args.sort.case_sensitive =>
        /\ \A a, b \in SiblingSet :
              /\ compare_by_name(a, b, args.sort) =
                    compare_natural(ToLowercase(file_name(a)), ToLowercase(file_name(b)))
              /\ ToLowercase(file_name(a)) = ToLowercase(file_name(b)) =>
                    compare_by_name(a, b, args.sort) = Equal
        /\ op = "sorted" /\ NameKeyAlone /\ SiblingSet = {e_B2, e_a10} =>
              siblings = <<e_a10, e_B2>>

\* C23 (as claimed): with primary key modified_time, an entry whose
\* modification time cannot be read sorts before every entry whose time is
\* known, two entries without a readable time compare Equal, and two
\* entries with known times are ordered by ascending time.
C23_UnreadableTimeFirst ==
    pc = "sort" =>
        \A a, b \in SiblingSet :
            /\ ~IsSome(a.modified) /\ IsSome(b.modified) =>
                  compare_by_modified(a, b) = Less
            /\ ~IsSome(a.modified) /\ ~IsSome(b.modified) =>
                  compare_by_modified(a, b) = Equal
            /\ IsSome(a.modified) /\ IsSome(b.modified) =>
                  compare_by_modified(a, b) = CmpInt(Unwrap(a.modified), Unwrap(b.modified))

\* the order of two extensions under the configuration
ExtensionOrder(a, b, options) ==
    IF options.case_sensitive
    THEN StrCmp(get_extension(file_name(a)), get_extension(file_name(b)))
    ELSE StrCmp(ToLowercase(get_extension(file_name(a))),
                ToLowercase(get_extension(file_name(b))))

\* no bucket rule is on and the order is not reversed
PrimaryKeyAlone ==
    ~args.sort.dotfiles_first /\ ~args.sort.directories_first /\ ~args.sort.reverse

\* C24: with primary key extension, entries are ordered by their extension
\* (empty when there is none) and two entries with equal extensions by the
\* name comparator under the same case_sensitive / natural_sort settings;
\* with primary key size a directory counts as size 0.
C24_ExtensionAndSize ==
    pc = "sort" =>
        /\ \A a, b \in SiblingSet :
              /\ compare_by_extension(a, b, args.sort) =
                    IF ExtensionOrder(a, b, args.sort) # Equal
                    THEN ExtensionOrder(a, b, args.sort)
                    ELSE compare_by_name(a, b, args.sort)
              /\ a.is_dir => get_entry_size(a) = 0
              /\ ~a.is_dir => get_entry_size(a) = a.size
              /\ compare_by_size(a, b) = CmpInt(IF a.is_dir THEN 0 ELSE a.size,
                                               IF b.is_dir THEN 0 ELSE b.size)
        /\ op = "sorted" /\ PrimaryKeyAlone /\ args.sort.sort_type = "Extension" =>
              \A i, j \in Idx(siblings) :
                  i < j => /\ ExtensionOrder(siblings[i], siblings[j], args.sort) # Greater
                           /\ ExtensionOrder(siblings[i], siblings[j], args.sort) = Equal =>
                                 compare_by_name(siblings[i], siblings[j], args.sort) # Greater
        /\ op = "sorted" /\ PrimaryKeyAlone /\ args.sort.sort_type = "Size" =>
              \A i, j \in Idx(siblings) :
                  i < j /\ siblings[j].is_dir => siblings[i].is_dir

\* C24 witness: sorted by extension, an entry without extension stands
\* first and two entries with one extension follow in name order; they
\* were handed over in the opposite order.
C24_Witness ==
    /\ op = "sorted"
    /\ PrimaryKeyAlone /\ args.sort.sort_type = "Extension"
    /\ Len(siblings) = 3
    /\ get_extension(file_name(siblings[1])) = <<>>
    /\ get_extension(file_name(siblings[2])) # <<>>
    /\ get_extension(file_name(siblings[2])) = get_extension(file_name(siblings[3]))
    /\ compare_by_name(siblings[2], siblings[3], args.sort) = Less
    /\ prev.siblings = <<siblings[3], siblings[2], siblings[1]>>

\* the 0-based position of an entry in a sequence of different entries
PlaceOf(seq, e) == Unwrap(PositionOfPath(seq, e.path))

\* C25: the sort is stable: for every configuration, reverse = true
\* included, two entries that compare Equal stand in the sorted output in
\* the order they had in the input, and the output is a rearrangement of
\* the input.
C25_StableSort ==
    op = "sorted" =>
        /\ Len(siblings) = Len(prev.siblings)
        /\ \A i \in Idx(prev.siblings) : \E k \in Idx(siblings) : siblings[k] = prev.siblings[i]
        /\ \A i, j \in Idx(prev.siblings) :
              i < j /\ SortCmp(prev.siblings[i], prev.siblings[j], args.sort) = Equal =>
                  PlaceOf(siblings, prev.siblings[i]) < PlaceOf(siblings, prev.siblings[j])

\* C25 witness: sorted in reverse, two entries that compare Equal have been
\* moved in front of a third one and stand in their input order.
C25_Witness ==
    /\ op = "sorted"
    /\ args.sort.reverse
    /\ Len(siblings) = 3
    /\ SortCmp(prev.siblings[2], prev.siblings[3], args.sort) = Equal
    /\ siblings = <<prev.siblings[2], prev.siblings[3], prev.siblings[1]>>

\* the walked entry a master node was built from
EntryOf(path) == CHOOSE e \in {walk[k] : k \in Idx(walk)} : e.path = path

\* every sibling group of the master sequence is sorted under the
\* configuration
SiblingGroupsSorted(m, options) ==
    \A i, j \in Idx(m) :
        i < j /\ Front(m[i].path) = Front(m[j].path) =>
            SortCmp(EntryOf(m[i].path), EntryOf(m[j].path), options) # Greater

\* C26 (as claimed): in the master sequence built by scan_directory every
\* sibling group is sorted under the active configuration, reverse taken
\* into account, while the order across levels is pre-order.
C26_SiblingsSortedInPreOrder ==
    Constructed =>
        /\ SiblingGroupsSorted(master_entries, args.sort)
        /\ IsPreOrder(master_entries)

\* C27: in every state after construction, whatever toggles and moves have
\* run, visible_entries is regenerate_visible_entries of the current
\* master_entries and nothing else, and each visible entry is its master
\* node, is_expanded included.
C27_VisibleIsProjection ==
    Constructed =>
        /\ visible_entries = regenerate_visible_entries(master_entries)
        /\ \A i \in Idx(visible_entries) :
              \E k \in Idx(master_entries) : visible_entries[i] = master_entries[k]

\* C27 witness: a move and then a collapse have run; the visible sequence
\* is shorter than before, shows an expanded directory, and is the
\* projection of the master sequence.
C27_Witness ==
    /\ op = "toggle"
    /\ Unwrap(prev.selected) >= 1
    /\ Len(visible_entries) < Len(prev.visible_entries)
    /\ \E i \in Idx(visible_entries) : visible_entries[i].is_expanded
    /\ visible_entries = regenerate_visible_entries(master_entries)

\* the master sequences hold the same nodes in the same order: path, depth
\* and is_dir of every node agree
SameNodes(m, n) ==
    /\ Len(m) = Len(n)
    /\ \A k \in Idx(m) :
          m[k].path = n[k].path /\ m[k].depth = n[k].depth /\ m[k].is_dir = n[k].is_dir

\* the nodes whose is_expanded flag differs
FlagsChanged(m, n) == {k \in Idx(m) : m[k].is_expanded # n[k].is_expanded}

\* C28: no operation reorders, adds or removes master nodes or changes a
\* path, depth or is_dir; toggle_expansion flips the flag of exactly the
\* selected node when it is a directory and of no node when it is a file;
\* move_next and move_previous change no flag and no visible entry.
C28_Frame ==
    op \in {"next", "previous", "toggle", "toggle_twice"} =>
        /\ SameNodes(master_entries, prev.master_entries)
        /\ op \in {"next", "previous"} =>
              /\ master_entries = prev.master_entries
              /\ visible_entries = prev.visible_entries
        /\ ToggleDone =>
              IF Unwrap(PrevSelectedEntry).is_dir
              THEN \E k \in Idx(master_entries) :
                      /\ master_entries[k].path = PrevSelectedPath
                      /\ FlagsChanged(master_entries, prev.master_entries) = {k}
              ELSE /\ master_entries = prev.master_entries
                   /\ visible_entries = prev.visible_entries

\* C28 witness: toggle_expansion has run on a directory below the first
\* line while another directory was expanded; one flag differs.
C28_Witness ==
    /\ ToggleDone
    /\ Unwrap(prev.selected) >= 1
    /\ Unwrap(PrevSelectedEntry).is_dir
    /\ \E k \in Idx(prev.master_entries) :
          prev.master_entries[k].is_expanded /\ prev.master_entries[k].path # PrevSelectedPath
    /\ Cardinality(FlagsChanged(master_entries, prev.master_entries)) = 1

\* C29: toggle_expansion applied twice in a row to the same selected
\* directory restores the state: the same flags, the same visible sequence,
\* the same selection; the flags of descendant directories survive.
C29_DoubleToggleRestores ==
    (/\ op = "toggle_twice"
     /\ IsSome(PrevSelectedEntry)
     /\ Unwrap(PrevSelectedEntry).is_dir) =>
        /\ pc = "test"
        /\ master_entries = prev.master_entries
        /\ visible_entries = prev.visible_entries
        /\ selected = prev.selected

\* C29 witness: an expanded directory with an expanded child directory has
\* been collapsed and expanded again, and the child is still expanded.
C29_Witness ==
    /\ op = "toggle_twice"
    /\ IsSome(PrevSelectedEntry)
    /\ \E k, j \in Idx(master_entries) :
          /\ prev.master_entries[k].path = PrevSelectedPath
          /\ prev.master_entries[k].is_dir /\ prev.master_entries[k].is_expanded
          /\ IsStrictPrefix(PrevSelectedPath, master_entries[j].path)
          /\ prev.master_entries[j].is_expanded
          /\ master_entries[j].is_expanded
    /\ Snapshot = prev

\* the visible entries that are neither the directory nor below it, in order
RECURSIVE OthersOf(_, _, _)
OthersOf(v, path, k) ==
    IF k > Len(v) THEN <<>>
    ELSE IF IsPrefix(path, v[k].path) THEN OthersOf(v, path, k + 1)
    ELSE <<v[k]>> \o OthersOf(v, path, k + 1)

\* the indices directly after index i (1-based), n of them
DirectlyAfter(i, n) == (i + 1)..(i + n)

\* C30: for a pre-order master sequence, toggle_expansion on the directory
\* at visible index i changes the visible sequence only by inserting or
\* removing strict descendants of it directly after index i: the entries
\* before i are unchanged, index i still holds the directory, the selection
\* stays i, and the entries that are not descendants keep their order and
\* stay visible.
C30_ToggleIsLocal ==
    ToggleDone /\ Unwrap(PrevSelectedEntry).is_dir /\ IsPreOrder(master_entries) =>
        /\ selected = prev.selected
        /\ \A k \in 1..Unwrap(prev.selected) : visible_entries[k] = prev.visible_entries[k]
        /\ visible_entries[Unwrap(prev.selected) + 1].path = PrevSelectedPath
        /\ OthersOf(visible_entries, PrevSelectedPath, 1)
              = OthersOf(prev.visible_entries, PrevSelectedPath, 1)
        /\ VisibleDescendants(visible_entries, PrevSelectedPath)
              = DirectlyAfter(Unwrap(prev.selected) + 1,
                              Cardinality(VisibleDescendants(visible_entries, PrevSelectedPath)))
        /\ VisibleDescendants(prev.visible_entries, PrevSelectedPath)
              = DirectlyAfter(Unwrap(prev.selected) + 1,
                              Cardinality(VisibleDescendants(prev.visible_entries,
                                                             PrevSelectedPath)))
        /\ \/ VisibleDescendants(visible_entries, PrevSelectedPath) = {}
           \/ VisibleDescendants(prev.visible_entries, PrevSelectedPath) = {}

\* C30 witness: a directory below the first line has been collapsed: its
\* descendants are gone, the entry behind them has moved up and the
\* selection is where it was.
C30_Witness ==
    /\ ToggleDone
    /\ IsPreOrder(master_entries)
    /\ Unwrap(prev.selected) >= 1
    /\ Unwrap(PrevSelectedEntry).is_dir
    /\ Len(visible_entries) < Len(prev.visible_entries)
    /\ Len(visible_entries) > Unwrap(prev.selected) + 1
    /\ selected = prev.selected

====
